---- MODULE Spec2Model ----
\* Model of the Infoblox discovery scripts: current-discovery.py (immediate
\* mode), scheduled-discovery.py (scheduled mode) and scheduler.py (the legacy
\* scheduler).  One invocation of a script is a process p; its steps are the
\* script's remote calls, each together with the local decisions that follow it.
EXTENDS Integers, Sequences, FiniteSets, TLC

\* ---------------------------------------------------------------- bounds
\* Longest discovery-enabled list the remote inventory returns.
MaxNets == 3
\* Largest extra time (seconds) one loop iteration of the stop-poll takes on
\* top of the sleep: the duration of the state request.
MaxDelay == 1

\* ------------------------------------------------------ program constants
\* wait_for_discovery_to_stop(task_ref, timeout=60, interval=5)
Timeout == 60
Interval == 5

\* ------------------------------------------------------------ the values
Procs == {1, 2}
Scripts == {"current", "scheduled", "legacy"}
Roles == {"current", "scheduled"}
None == "None"

\* Network views and network references are strings, modelled as sequences of
\* characters so that str.endswith is computed and not assumed.
ViewDefault == <<"d">>
ViewOther == <<"o">>
Views == {ViewDefault, ViewOther}
RefA == <<"A", "/", "d">>
RefB == <<"B", "/", "d">>
RefC == <<"C", "/", "o">>
Refs == {RefA, RefB, RefC}
FallbackRef(v) == <<"F", "/">> \o v

\* The lists of discovery-enabled references the network listing can return:
\* every list of distinct references of at most MaxNets elements.
RECURSIVE ListsUpTo(_)
ListsUpTo(n) ==
    IF n = 0 THEN {<< >>}
    ELSE LET shorter == ListsUpTo(n - 1)
         IN  shorter \cup
             {Append(l, r) : l \in {s \in shorter : Len(s) = n - 1}, r \in Refs}
Range(s) == {s[i] : i \in 1..Len(s)}
Inventories == {l \in ListsUpTo(MaxNets) : Cardinality(Range(l)) = Len(l)}

\* The remote task's states (spec section 4.1): three active ones and the
\* catch-all of stopped/terminal values.
ActiveStates == {"RUNNING", "PAUSED", "END_PENDING"}
RemoteStates == ActiveStates \cup {"STOPPED", "COMPLETE"}

\* str.upper() on the spellings of a state the remote may report.
Upper(s) ==
    CASE s = "running" -> "RUNNING"
      [] s = "paused" -> "PAUSED"
      [] s = "end_pending" -> "END_PENDING"
      [] s = "stopped" -> "STOPPED"
      [] s = "complete" -> "COMPLETE"
      [] OTHER -> s
Lower(s) ==
    CASE s = "RUNNING" -> "running"
      [] s = "PAUSED" -> "paused"
      [] s = "END_PENDING" -> "end_pending"
      [] s = "STOPPED" -> "stopped"
      [] s = "COMPLETE" -> "complete"
      [] OTHER -> s

\* Python truthiness of a state value: None and the empty string are falsy.
Truthy(s) == s # None /\ s # ""

\* get_current_discovery_status / get_discovery_task_status: the request fails
\* or the task is not in the answer (None), or the task's state is returned in
\* the spelling the remote chose.
StatusResults(s) == {None, s, Lower(s)}

\* `state and state.upper() in ("RUNNING", "PAUSED", "END_PENDING")`
MutIsActiveOnUnknown(s) == ~Truthy(s) \/ Upper(s) \in ActiveStates
IsActive(s) == Truthy(s) /\ Upper(s) \in ActiveStates

\* wait_for_discovery_to_stop, line 244:
\* `state and state.upper() not in ("RUNNING", "PAUSED", "END_PENDING")`
MutHasStoppedOnNone(s) == ~(Truthy(s) /\ Upper(s) \in ActiveStates)
HasStopped(s) == Truthy(s) /\ Upper(s) \notin ActiveStates

\* History only: a poll reported a known state that is not an active one.
ReportedStopped(s) == s \notin {None, ""} /\ Upper(s) \notin ActiveStates

\* start_current_discovery_task, line 305:
\* `new_state and new_state.upper() == "RUNNING"`
MutIsRunningAnyState(s) == Truthy(s)
IsRunning(s) == Truthy(s) /\ Upper(s) = "RUNNING"

\* str.endswith
EndsWith(s, suffix) ==
    /\ Len(suffix) <= Len(s)
    /\ SubSeq(s, Len(s) - Len(suffix) + 1, Len(s)) = suffix

\* filter_by_view: [ref for ref in network_refs if ref.endswith("/" + view)]
MutFilterNoSlash(network_refs, view) ==
    SelectSeq(network_refs, LAMBDA ref : EndsWith(ref, view))
filter_by_view(network_refs, view) ==
    SelectSeq(network_refs, LAMBDA ref : EndsWith(ref, <<"/">> \o view))

\* input(...).strip().lower() on the answers an operator may type.
Answers == {"y", " Y ", "n", ""}
StripLower(ans) == IF ans = " Y " THEN "y" ELSE ans

\* prompt_overwrite: True when forced, else whether the answer is 'y'.
MutPromptAlwaysYes(f, ans) == TRUE
prompt_overwrite(f, ans) == f \/ StripLower(ans) = "y"

\* The body of the PUT: update_current_discovery_task sends the command-line
\* view, update_scheduled_discovery_task the configured view, and the legacy
\* scheduler the literal "GLOBAL".
ViewGlobal == <<"G", "L", "O", "B", "A", "L">>
MutPayloadNetworksOnly(view, network_refs) == [networks |-> network_refs]
Payload(view, network_refs) ==
    [mode |-> "ICMP", network_view |-> view, networks |-> network_refs,
     ping_retries |-> 5, ping_timeout |-> 1500]

\* main, current-discovery.py lines 349-361 and scheduled-discovery.py lines
\* 248-262: the list is the filtered one, or empty.
SelectNetworks(found, view) ==
    IF found # << >>
    THEN LET filtered == filter_by_view(found, view)
         IN  IF filtered # << >> THEN filtered ELSE << >>
    ELSE << >>

\* `if not networks:` (current-discovery.py line 363, scheduled-discovery.py
\* line 265) and `if networks:` (scheduler.py line 184).
MutNothingToUpdateNever(network_refs) == FALSE
NothingToUpdate(network_refs) == network_refs = << >>

\* config.yaml: a required key is absent, empty, or set.
ConfigKeys == {"INFOBLOX_API_URL", "INFOBLOX_API_USERNAME",
               "INFOBLOX_API_PASSWORD", "SCHEDULED_DISCOVERY_NETWORK_VIEW"}
ConfigValues == {None, "", "set"}
\* cfg.get(key, "")
CfgGet(cfg, key) == IF cfg[key] = None THEN "" ELSE cfg[key]

\* validate_config of current-discovery.py and scheduled-discovery.py: every
\* one of the four keys must be non-empty.
validate_config(cfg) == \A key \in ConfigKeys : CfgGet(cfg, key) # ""

\* scheduler.py, line 33:
\* `if not INFOBLOX_API_URL or not USERNAME or not PASSWORD`.
legacy_config_ok(cfg) ==
    /\ CfgGet(cfg, "INFOBLOX_API_URL") # ""
    /\ CfgGet(cfg, "INFOBLOX_API_USERNAME") # ""
    /\ CfgGet(cfg, "INFOBLOX_API_PASSWORD") # ""

\* Whether the console message of an outcome refers the operator to
\* discovery.log (the print calls of the three main functions).
ConsoleMentionsLog(outcome) ==
    outcome \in {"config_invalid", "notfound", "fallback_missing",
                 "update_failed", "start_failed"}

\* The remote platform (spec section 4.1): END drives an active task towards
\* STOPPED, START takes an inactive task to RUNNING, and a control action the
\* task's state does not allow is rejected or has no effect.
EndOutcomes(s) == IF s \in ActiveStates THEN {"END_PENDING", "STOPPED"} ELSE {s}
StartOutcomes(s) == IF s \in ActiveStates THEN {s} ELSE {"RUNNING"}

VARIABLES
    taskState,    \* remote: state of the task with role "current"
    taskNets,     \* remote: network list of each task, by role
    fallbackCfg,  \* config: SCHEDULED_DISCOVERY_DEFAULT_NETWORK is set
    config,       \* config.yaml: the value of each required key
    timeout,      \* wait_for_discovery_to_stop: its parameter timeout
    interval,     \* wait_for_discovery_to_stop: its parameter interval
    pc,           \* position of each invocation
    script,       \* which script the invocation runs
    force,        \* args.force
    desired_view, \* args.network_view / SCHEDULED_DISCOVERY_NETWORK_VIEW
    task_ref,     \* current_ref / scheduled_ref
    state,        \* the state main read first (current-discovery.py line 338)
    discovered,   \* result of get_discovery_enabled_networks
    networks,     \* the list handed to the update
    elapsed,      \* time.time() - start_time in the stop-poll
    report,       \* the outcome printed on the console
    calls,        \* history: the remote calls issued, in order
    answer,       \* history: the operator's answer to the prompt
    puts,         \* history: the bodies of the PUTs issued
    failed,       \* history: positions in calls of the requests that failed
    startInfo     \* history: what start_current_discovery_task saw and did

vars == <<taskState, taskNets, fallbackCfg, config, timeout, interval, pc,
          script, force, desired_view, task_ref, state, discovered, networks, elapsed, report,
          calls, answer, puts, failed, startInfo>>
remoteVars == <<taskState, taskNets>>
configVars == <<fallbackCfg, config, timeout, interval, script, force,
                desired_view>>

NoStart ==
    [entered |-> FALSE, first |-> None, endRet |-> None, waitRet |-> None,
     polls |-> 0, stopped |-> 0, sentAt |-> None, postRet |-> None,
     new_state |-> None, verifies |-> 0, ret |-> None]

InitialNets == {<<RefC>>, <<RefA, RefB, RefC>>}

InitCommon ==
    /\ taskState \in RemoteStates
    /\ taskNets \in [Roles -> InitialNets]
    /\ fallbackCfg \in BOOLEAN
    /\ config \in [ConfigKeys -> ConfigValues]
    /\ timeout = Timeout
    /\ interval = Interval
    /\ force \in [Procs -> BOOLEAN]
    /\ desired_view \in [Procs -> Views]
    /\ task_ref = [p \in Procs |-> None]
    /\ state = [p \in Procs |-> None]
    /\ discovered = [p \in Procs |-> << >>]
    /\ networks = [p \in Procs |-> << >>]
    /\ elapsed = [p \in Procs |-> 0]
    /\ report = [p \in Procs |-> "none"]
    /\ calls = [p \in Procs |-> << >>]
    /\ answer = [p \in Procs |-> "none"]
    /\ puts = [p \in Procs |-> << >>]
    /\ failed = [p \in Procs |-> {}]
    /\ startInfo = [p \in Procs |-> NoStart]

\* One invocation of one of the three scripts (the documented use: a single
\* operator, a single invocation).
Init ==
    /\ InitCommon
    /\ script \in [Procs -> Scripts]
    /\ script[2] = "current"
    /\ force[2] = FALSE
    /\ desired_view[2] = ViewDefault
    /\ (script[1] # "current" => force[1] = FALSE)
    /\ (script[1] # "scheduled" => fallbackCfg = FALSE)
    /\ (script[1] = "current" => taskNets["scheduled"] = <<RefC>>)
    /\ (script[1] # "current" => taskNets["current"] = <<RefC>>)
    /\ pc = [p \in Procs |-> IF p = 1 THEN "startup" ELSE "idle"]

Call(p, c) == calls' = [calls EXCEPT ![p] = Append(@, c)]
Goto(p, l) == pc' = [pc EXCEPT ![p] = l]
Finish(p, r) == /\ pc' = [pc EXCEPT ![p] = "done"]
                /\ report' = [report EXCEPT ![p] = r]

\* The request being issued succeeds or fails (network error or non-2xx).
Outcome(p, ok) ==
    failed' = IF ok THEN failed
              ELSE [failed EXCEPT ![p] = @ \cup {Len(calls[p]) + 1}]

\* The module-level configuration check of each script: an invalid
\* configuration ends the process (sys.exit(1)) before main runs.  The legacy
\* scheduler prints nothing when it does.
ConfigAccepted(s, cfg) ==
    IF s = "legacy" THEN legacy_config_ok(cfg) ELSE validate_config(cfg)
startup(p) ==
    /\ pc[p] = "startup"
    /\ IF ConfigAccepted(script[p], config)
       THEN Goto(p, "locate") /\ UNCHANGED report
       ELSE Finish(p, IF script[p] = "legacy" THEN "config_rejected"
                      ELSE "config_invalid")
    /\ UNCHANGED <<remoteVars, configVars, task_ref, state, discovered,
                   networks, elapsed, calls, answer, puts, failed, startInfo>>

\* main of each script: `if not current_ref: print(...); return`.
MutAfterLocateIgnoreMissing(ref, s) == IF s = "current" THEN "status" ELSE "listnets"
AfterLocate(ref, s) ==
    IF ref = None THEN "done"
    ELSE IF s = "current" THEN "status" ELSE "listnets"

\* get_current_discovery_ref looks for the task whose discovery_task_oid is
\* "current", get_scheduled_discovery_ref (both scheduled-mode scripts) for
\* the one whose oid is "scheduled".
MutTaskRoleAlwaysCurrent(s) == "current"
TaskRole(s) == IF s = "current" THEN "current" ELSE "scheduled"

\* get_current_discovery_ref / get_scheduled_discovery_ref and the caller's
\* `if not ref: print(...); return`: the request fails, or no task has the
\* role, or the task's reference is returned.
locate(p) ==
    /\ pc[p] = "locate"
    /\ Call(p, "LIST_TASKS")
    /\ \E res \in {"found", "absent", "failed"} :
         LET ref == IF res # "found" THEN None ELSE TaskRole(script[p])
         IN  /\ Outcome(p, res # "failed")
             /\ task_ref' = [task_ref EXCEPT ![p] = ref]
             /\ IF AfterLocate(ref, script[p]) = "done"
                THEN Finish(p, "notfound")
                ELSE Goto(p, AfterLocate(ref, script[p])) /\ UNCHANGED report
    /\ UNCHANGED <<remoteVars, configVars, state, discovered, networks, elapsed,
                   answer, puts, startInfo>>

\* current-discovery.py main, lines 338-347: the first state read and the
\* confirmation prompt.
main_status(p) ==
    /\ pc[p] = "status"
    /\ Call(p, "GET_STATE")
    /\ \E s \in StatusResults(taskState), ans \in Answers :
         /\ state' = [state EXCEPT ![p] = s]
         /\ IF IsActive(s)
            THEN /\ answer' = [answer EXCEPT ![p] =
                        IF force[p] THEN "forced"
                        ELSE IF StripLower(ans) = "y" THEN "yes" ELSE "no"]
                 /\ IF prompt_overwrite(force[p], ans)
                    THEN Goto(p, "listnets") /\ UNCHANGED report
                    ELSE Finish(p, "aborted")
            ELSE /\ ans = "y"
                 /\ Goto(p, "listnets")
                 /\ UNCHANGED <<answer, report>>
    /\ UNCHANGED <<remoteVars, configVars, task_ref, discovered, networks,
                   elapsed, puts, failed, startInfo>>

\* get_discovery_enabled_networks: [] when the request fails, else the
\* references whose Network_Discovery attribute is "True".
NetworkListings(ok) == IF ok THEN Inventories ELSE {<< >>}

\* current-discovery.py main, lines 349-365.
main_networks(p) ==
    /\ pc[p] = "listnets" /\ script[p] = "current"
    /\ Call(p, "LIST_NETWORKS")
    /\ \E ok \in BOOLEAN : \E found \in NetworkListings(ok) :
         /\ Outcome(p, ok)
         /\ discovered' = [discovered EXCEPT ![p] = found]
         /\ networks' = [networks EXCEPT ![p] = SelectNetworks(found, desired_view[p])]
         /\ IF NothingToUpdate(SelectNetworks(found, desired_view[p]))
            THEN Finish(p, "skipped")
            ELSE Goto(p, "update") /\ UNCHANGED report
    /\ UNCHANGED <<remoteVars, configVars, task_ref, state, elapsed, answer,
                   puts, startInfo>>

\* The remote's answer to the PUT: a success overwrites the task's list.
PutEffect(p, ok) ==
    LET body == Payload(IF script[p] = "legacy" THEN ViewGlobal
                        ELSE desired_view[p], networks[p])
    IN  /\ puts' = [puts EXCEPT ![p] = Append(@, body)]
        /\ taskNets' = IF ok /\ "networks" \in DOMAIN body
                       THEN [taskNets EXCEPT ![task_ref[p]] = body.networks]
                       ELSE taskNets
        /\ Outcome(p, ok)
        /\ UNCHANGED taskState

\* current-discovery.py main, lines 367-370, with update_current_discovery_task.
MutAfterUpdateIgnoreFailure(ok) == "start_read"
MutAfterUpdateRetry(ok) == IF ok THEN "start_read" ELSE "update"
AfterUpdate(ok) == IF ok THEN "start_read" ELSE "done"
main_update(p) ==
    /\ pc[p] = "update" /\ script[p] = "current"
    /\ Call(p, "PUT")
    /\ \E ok \in BOOLEAN :
         /\ PutEffect(p, ok)
         /\ IF AfterUpdate(ok) = "done"
            THEN Finish(p, "update_failed")
            ELSE Goto(p, AfterUpdate(ok)) /\ UNCHANGED report
    /\ UNCHANGED <<configVars, task_ref, state, discovered, networks, elapsed,
                   answer, startInfo>>

StartFails(p, info) ==
    /\ startInfo' = [startInfo EXCEPT ![p] = [info EXCEPT !.ret = "False"]]
    /\ report' = [report EXCEPT ![p] = "start_failed"]
    /\ Goto(p, "final")

\* start_current_discovery_task, lines 279-289: the state read that decides
\* whether the task is stopped first.
AfterFirstRead(s) == IF IsActive(s) THEN "stop" ELSE "start_post"
start_read(p) ==
    /\ pc[p] = "start_read"
    /\ Call(p, "GET_STATE")
    /\ \E s \in StatusResults(taskState) :
         /\ startInfo' = [startInfo EXCEPT ![p] =
                             [@ EXCEPT !.entered = TRUE, !.first = s]]
         /\ Goto(p, AfterFirstRead(s))
    /\ UNCHANGED <<remoteVars, configVars, task_ref, state, discovered,
                   networks, elapsed, report, answer, puts, failed>>

\* start_current_discovery_task, lines 282-284:
\* `if not stop_current_discovery_task(task_ref): return False`.
MutAfterStopIgnoreFailure(ok) == "wait"
AfterStop(ok) == IF ok THEN "wait" ELSE "final"

\* stop_current_discovery_task and lines 282-284: the END call.
start_stop(p) ==
    /\ pc[p] = "stop"
    /\ Call(p, "END")
    /\ \E ok \in BOOLEAN :
         /\ Outcome(p, ok)
         /\ IF AfterStop(ok) = "wait"
            THEN /\ taskState' \in IF ok THEN EndOutcomes(taskState)
                                  ELSE {taskState}
                 /\ startInfo' = [startInfo EXCEPT ![p] =
                        [@ EXCEPT !.endRet = IF ok THEN "True" ELSE "False"]]
                 /\ elapsed' = [elapsed EXCEPT ![p] = 0]
                 /\ Goto(p, "wait")
                 /\ UNCHANGED report
            ELSE /\ StartFails(p, [startInfo[p] EXCEPT !.endRet = "False"])
                 /\ UNCHANGED <<taskState, elapsed>>
    /\ UNCHANGED <<taskNets, configVars, task_ref, state, discovered, networks,
                   answer, puts>>

\* start_current_discovery_task, lines 285-287:
\* `if not wait_for_discovery_to_stop(task_ref): ... return False`.
MutAfterWaitIgnored(ret) == "start_post"
MutAfterWaitInverted(ret) == IF ret = "True" THEN "final" ELSE "start_post"
AfterWait(ret) == IF ret = "True" THEN "start_post" ELSE "final"

\* The return of wait_for_discovery_to_stop into start_current_discovery_task.
WaitReturns(p, info, ret) ==
    IF AfterWait(ret) = "final"
    THEN StartFails(p, [info EXCEPT !.waitRet = ret])
    ELSE /\ startInfo' = [startInfo EXCEPT ![p] = [info EXCEPT !.waitRet = ret]]
         /\ Goto(p, AfterWait(ret))
         /\ UNCHANGED report

\* wait_for_discovery_to_stop, lines 242-247: one iteration of the loop.  An
\* iteration that does not return takes the sleep and the time of the request;
\* on the return of True the function's clock is no longer needed and is
\* cleared.
MutBeforeDeadlineInclusive(t) == t <= timeout
BeforeDeadline(t) == t < timeout
wait_poll(p) ==
    /\ pc[p] = "wait"
    /\ BeforeDeadline(elapsed[p])
    /\ Call(p, "GET_STATE")
    /\ \E s \in StatusResults(taskState), d \in 0..MaxDelay :
         LET info == [startInfo[p] EXCEPT
                        !.polls = @ + 1,
                        !.stopped = @ + (IF ReportedStopped(s) THEN 1 ELSE 0)]
         IN  IF HasStopped(s)
             THEN /\ WaitReturns(p, info, "True")
                  /\ d = 0
                  /\ elapsed' = [elapsed EXCEPT ![p] = 0]
             ELSE /\ startInfo' = [startInfo EXCEPT ![p] = info]
                  /\ elapsed' = [elapsed EXCEPT ![p] = @ + interval + d]
                  /\ UNCHANGED <<pc, report>>
    /\ UNCHANGED <<remoteVars, configVars, task_ref, state, discovered,
                   networks, answer, puts, failed>>

\* wait_for_discovery_to_stop, line 248: the loop ends at the deadline.
wait_timeout(p) ==
    /\ pc[p] = "wait"
    /\ ~BeforeDeadline(elapsed[p])
    /\ WaitReturns(p, startInfo[p], "False")
    /\ UNCHANGED <<remoteVars, configVars, task_ref, state, discovered,
                   networks, elapsed, calls, answer, puts, failed>>

\* start_current_discovery_task, lines 292-302: the START call.
start_post(p) ==
    /\ pc[p] = "start_post"
    /\ Call(p, "START")
    /\ \E ok \in BOOLEAN :
         /\ Outcome(p, ok)
         /\ IF ok
            THEN /\ taskState' \in StartOutcomes(taskState)
                 /\ startInfo' = [startInfo EXCEPT ![p] =
                        [@ EXCEPT !.sentAt = taskState, !.postRet = "True"]]
                 /\ Goto(p, "start_verify")
                 /\ UNCHANGED report
            ELSE /\ StartFails(p, [startInfo[p] EXCEPT !.sentAt = taskState,
                                                       !.postRet = "False"])
                 /\ UNCHANGED taskState
    /\ UNCHANGED <<taskNets, configVars, task_ref, state, discovered, networks,
                   elapsed, answer, puts>>

\* start_current_discovery_task, lines 303-310, and main, lines 372-375: the
\* single state read after the fixed sleep decides the result.
start_verify(p) ==
    /\ pc[p] = "start_verify"
    /\ Call(p, "GET_STATE")
    /\ \E s \in StatusResults(taskState) :
         /\ startInfo' = [startInfo EXCEPT ![p] =
               [@ EXCEPT !.new_state = s, !.verifies = @ + 1,
                         !.ret = IF IsRunning(s) THEN "True" ELSE "False"]]
         /\ report' = [report EXCEPT ![p] =
               IF IsRunning(s) THEN "started" ELSE "start_failed"]
    /\ Goto(p, "final")
    /\ UNCHANGED <<remoteVars, configVars, task_ref, state, discovered,
                   networks, elapsed, answer, puts, failed>>

\* current-discovery.py main, lines 377-385: the final state read; its result
\* is only printed.
main_final(p) ==
    /\ pc[p] = "final" /\ script[p] = "current"
    /\ Call(p, "GET_STATE")
    /\ Goto(p, "done")
    /\ UNCHANGED <<remoteVars, configVars, task_ref, state, discovered,
                   networks, elapsed, report, answer, puts, failed, startInfo>>

\* The remote platform on its own: a running discovery completes, a pending
\* end takes effect.
RemoteProgress ==
    /\ taskState \in {"RUNNING", "END_PENDING"}
    /\ taskState' = IF taskState = "RUNNING" THEN "COMPLETE" ELSE "STOPPED"
    /\ UNCHANGED <<taskNets, configVars, pc, task_ref, state, discovered,
                   networks, elapsed, report, calls, answer, puts, failed,
                   startInfo>>

\* scheduled-discovery.py main, line 266:
\* `if SCHEDULED_DISCOVERY_DEFAULT_NETWORK:`.
MutHasFallbackAlways(cfg) == TRUE
HasFallback(cfg) == cfg

\* scheduled-discovery.py main, line 269: `networks = [fallback_ref]`.
MutFallbackNetworksEmpty(fallback_ref) == << >>
FallbackNetworks(fallback_ref) == <<fallback_ref>>

\* scheduled-discovery.py main, lines 247-279: the selection of the networks
\* and the decision to fall back.
sched_networks(p) ==
    /\ pc[p] = "listnets" /\ script[p] = "scheduled"
    /\ Call(p, "LIST_NETWORKS")
    /\ \E ok \in BOOLEAN : \E found \in NetworkListings(ok) :
         /\ Outcome(p, ok)
         /\ discovered' = [discovered EXCEPT ![p] = found]
         /\ networks' = [networks EXCEPT ![p] = SelectNetworks(found, desired_view[p])]
         /\ IF NothingToUpdate(SelectNetworks(found, desired_view[p]))
            THEN IF HasFallback(fallbackCfg)
                 THEN Goto(p, "fallback") /\ UNCHANGED report
                 ELSE Finish(p, "skipped")
            ELSE Goto(p, "update") /\ UNCHANGED report
    /\ UNCHANGED <<remoteVars, configVars, task_ref, state, elapsed, answer,
                   puts, startInfo>>

\* scheduled-discovery.py main, lines 268-275:
\* `if fallback_ref: networks = [fallback_ref] else: ...; return`.
MutAfterFallbackIgnoreMissing(fallback_ref) == "update"
AfterFallback(fallback_ref) == IF fallback_ref # None THEN "update" ELSE "done"

\* get_network_ref and scheduled-discovery.py main, lines 267-275: the lookup
\* of the fallback network fails, finds nothing, or returns its reference.
sched_fallback(p) ==
    /\ pc[p] = "fallback"
    /\ Call(p, "GET_NETWORK")
    /\ \E ok \in BOOLEAN :
       \E fallback_ref \in IF ok THEN {None, FallbackRef(desired_view[p])}
                            ELSE {None} :
         /\ Outcome(p, ok)
         /\ IF AfterFallback(fallback_ref) = "update"
            THEN /\ networks' = [networks EXCEPT ![p] =
                                    FallbackNetworks(fallback_ref)]
                 /\ Goto(p, "update")
                 /\ UNCHANGED report
            ELSE /\ Finish(p, "fallback_missing")
                 /\ UNCHANGED networks
    /\ UNCHANGED <<remoteVars, configVars, task_ref, state, discovered, elapsed,
                   answer, puts, startInfo>>

\* scheduled-discovery.py main, lines 282-285, with
\* update_scheduled_discovery_task.
sched_update(p) ==
    /\ pc[p] = "update" /\ script[p] = "scheduled"
    /\ Call(p, "PUT")
    /\ \E ok \in BOOLEAN :
         /\ PutEffect(p, ok)
         /\ IF ok
            THEN Goto(p, "final") /\ UNCHANGED report
            ELSE Finish(p, "update_failed")
    /\ UNCHANGED <<configVars, task_ref, state, discovered, networks, elapsed,
                   answer, startInfo>>

\* scheduled-discovery.py main, lines 288-294, and scheduler.py main, lines
\* 193-197: the state of the scheduled task is read and only printed.
sched_final(p) ==
    /\ pc[p] = "final" /\ script[p] \in {"scheduled", "legacy"}
    /\ Call(p, "GET_STATE")
    /\ Finish(p, IF script[p] = "scheduled" THEN "updated" ELSE "finished")
    /\ UNCHANGED <<remoteVars, configVars, task_ref, state, discovered,
                   networks, elapsed, answer, puts, failed, startInfo>>

\* scheduler.py main, lines 183-187: the discovery-enabled list is used as it
\* was returned.
legacy_networks(p) ==
    /\ pc[p] = "listnets" /\ script[p] = "legacy"
    /\ Call(p, "LIST_NETWORKS")
    /\ \E ok \in BOOLEAN : \E found \in NetworkListings(ok) :
         /\ Outcome(p, ok)
         /\ discovered' = [discovered EXCEPT ![p] = found]
         /\ networks' = [networks EXCEPT ![p] = found]
         /\ Goto(p, IF NothingToUpdate(found) THEN "final" ELSE "update")
    /\ UNCHANGED <<remoteVars, configVars, task_ref, state, elapsed, report,
                   answer, puts, startInfo>>

\* scheduler.py update_scheduled_discovery_task, lines 100-127, called at line
\* 185: it returns nothing, so main goes on whatever the PUT did.
legacy_update(p) ==
    /\ pc[p] = "update" /\ script[p] = "legacy"
    /\ Call(p, "PUT")
    /\ \E ok \in BOOLEAN : PutEffect(p, ok)
    /\ Goto(p, "final")
    /\ UNCHANGED <<configVars, task_ref, state, discovered, networks, elapsed,
                   report, answer, startInfo>>

\* ------------------------------------------------------------ the claims
Count(seq, x) == Cardinality({k \in DOMAIN seq : seq[k] = x})
Pos(seq, x) == CHOOSE k \in DOMAIN seq : seq[k] = x
MutatingCalls == {"PUT", "END", "START"}
\* A state value that spells RUNNING, PAUSED or END_PENDING in either case.
ReadActive(s) == s \in ActiveStates \cup {"running", "paused", "end_pending"}
ReadRunning(s) == s \in {"RUNNING", "running"}
\* start read an active state, END succeeded, and the stop-poll returned ret.
StoppedFirst(p, ret) ==
    /\ startInfo[p].entered
    /\ ReadActive(startInfo[p].first)
    /\ startInfo[p].endRet = "True"
    /\ startInfo[p].waitRet = ret

\* C1: when start read an active state, END succeeded and the stop-poll
\* returned false at the deadline, the invocation never issues START and start
\* returns failure (reported as a failed start).
C1_TimeoutNoStart ==
    \A p \in Procs :
        StoppedFirst(p, "False") =>
            /\ Count(calls[p], "START") = 0
            /\ startInfo[p].sentAt = None
            /\ startInfo[p].ret = "False"
            /\ report[p] = "start_failed"
            /\ pc[p] \in {"final", "done"}
C1_Witness ==
    \E p \in Procs :
        StoppedFirst(p, "False") /\ pc[p] = "done" /\ startInfo[p].polls > 1

\* C2: when start read an active state, END succeeded and the stop-poll
\* converged, START is the next call: once start has moved on, exactly one
\* START was issued, after the one END, and the calls between the two are the
\* polls, the last of which reported the stopped task.
C2_ConvergedThenOneStart ==
    \A p \in Procs :
        StoppedFirst(p, "True") =>
            /\ pc[p] \in {"start_post", "start_verify", "final", "done"}
            /\ pc[p] = "start_post" => Count(calls[p], "START") = 0
            /\ pc[p] # "start_post" =>
                 /\ Count(calls[p], "START") = 1
                 /\ Count(calls[p], "END") = 1
                 /\ LET e == Pos(calls[p], "END")
                        s == Pos(calls[p], "START")
                    IN  /\ e < s
                        /\ s - e - 1 = startInfo[p].polls
                        /\ startInfo[p].polls >= 1
                        /\ \A k \in (e + 1)..(s - 1) : calls[p][k] = "GET_STATE"
C2_Witness ==
    \E p \in Procs :
        /\ StoppedFirst(p, "True")
        /\ pc[p] = "done"
        /\ startInfo[p].polls > 1
        /\ Count(calls[p], "START") = 1

\* C3: START is never sent while the remote task is RUNNING, PAUSED or
\* END_PENDING, whatever the state reads returned.
C3_StartOnlyWhenInactive ==
    \A p \in Procs : startInfo[p].sentAt \notin ActiveStates

\* C4: in immediate mode, when the first state read is active and the
\* operator confirms or force is set, the calls follow the documented order
\* END, PUT, START: no reconfigure PUT precedes the END of the invocation, and
\* START follows the PUT.
C4_EndBeforeReconfigure ==
    \A p \in Procs :
        (/\ script[p] = "current"
         /\ ReadActive(state[p])
         /\ answer[p] \in {"yes", "forced"}) =>
            \A i, j \in DOMAIN calls[p] :
                /\ (calls[p][i] = "PUT" /\ calls[p][j] = "END") => j < i
                /\ (calls[p][i] = "PUT" /\ calls[p][j] = "START") => i < j

\* C5: with a single invocation, a reported successful start means that the
\* remote task's network list is the list passed to the PUT and that the one
\* state read after START was RUNNING; every other outcome of an invocation
\* that issued the PUT is reported as a failed update or a failed start.
C5_StartedMeansReconfiguredAndRunning ==
    \A p \in Procs :
        script[p] = "current" =>
            /\ report[p] = "started" =>
                 /\ Len(puts[p]) = 1
                 /\ puts[p][1].networks = networks[p]
                 /\ taskNets["current"] = networks[p]
                 /\ startInfo[p].postRet = "True"
                 /\ ReadRunning(startInfo[p].new_state)
            /\ (pc[p] \in {"final", "done"} /\ puts[p] # << >>) =>
                 /\ report[p] \in {"started", "update_failed", "start_failed"}
                 /\ (startInfo[p].postRet = "True"
                       /\ ReadRunning(startInfo[p].new_state))
                      => report[p] = "started"
C5_Witness ==
    \E p \in Procs :
        /\ report[p] = "started"
        /\ pc[p] = "done"
        /\ StoppedFirst(p, "True")

\* C6: without the force flag and with an active first state read, no
\* mutating call is issued unless the operator was asked and said yes; after a
\* refusal the invocation is over, has issued no END, PUT or START, and the
\* remote task changes only by the remote's own progress.
C6_DeclineDoesNothing ==
    /\ [](\A p \in Procs :
            /\ (/\ script[p] = "current"
                /\ ~force[p]
                /\ ReadActive(state[p])
                /\ \E k \in DOMAIN calls[p] : calls[p][k] \in MutatingCalls)
               => answer[p] = "yes"
            /\ answer[p] = "no" =>
                 /\ pc[p] = "done"
                 /\ report[p] = "aborted"
                 /\ calls[p] = <<"LIST_TASKS", "GET_STATE">>
                 /\ puts[p] = << >>)
    /\ [][(\E p \in Procs : answer[p] = "no") =>
            /\ taskNets' = taskNets
            /\ taskState' # taskState => RemoteProgress]_vars
C6_Witness ==
    \E p \in Procs :
        answer[p] = "no" /\ pc[p] = "done" /\ taskState = "PAUSED"

\* C7: the stop-poll sleeps the interval after every poll that did not end
\* it; it returns true at the first poll reporting a known state outside
\* RUNNING, PAUSED, END_PENDING and at no other poll; it returns false only
\* at the deadline, with no such poll made; no poll starts after the deadline.
C7_WaitResult ==
    /\ [](\A p \in Procs :
            LET i == startInfo[p]
            IN  /\ pc[p] = "wait" =>
                     /\ i.stopped = 0
                     /\ i.waitRet = None
                     /\ elapsed[p] >= i.polls * Interval
                /\ i.waitRet = "True" => (i.stopped = 1 /\ i.polls >= 1)
                /\ i.waitRet = "False" => (i.stopped = 0 /\ elapsed[p] >= Timeout)
                /\ i.polls >= 1 => (i.polls - 1) * Interval < Timeout)
    /\ [][\A p \in Procs :
            (pc[p] = "wait" /\ startInfo'[p] # startInfo[p]) =>
                IF elapsed[p] < Timeout
                THEN /\ startInfo'[p].polls = startInfo[p].polls + 1
                     /\ calls'[p] = Append(calls[p], "GET_STATE")
                     /\ startInfo'[p].waitRet \in {None, "True"}
                ELSE /\ startInfo'[p].waitRet = "False"
                     /\ calls'[p] = calls[p]]_vars
C7_Witness ==
    \E p \in Procs :
        /\ startInfo[p].waitRet = "True"
        /\ startInfo[p].polls > 2
        /\ startInfo[p].stopped = 1

\* C8: start returns success exactly when the START call succeeded and the
\* state read after it spelled RUNNING in either case; that read is made once,
\* right after START, and only when START succeeded.
C8_StartResult ==
    \A p \in Procs :
        LET i == startInfo[p]
        IN  /\ i.ret = "True" <=>
                 (i.postRet = "True" /\ i.verifies = 1 /\ ReadRunning(i.new_state))
            /\ i.ret = "False" <=>
                 \/ i.endRet = "False"
                 \/ i.waitRet = "False"
                 \/ i.postRet = "False"
                 \/ i.postRet = "True" /\ i.verifies = 1 /\ ~ReadRunning(i.new_state)
            /\ i.verifies = (IF i.postRet = "True" /\ pc[p] # "start_verify"
                             THEN 1 ELSE 0)
            /\ (i.postRet = "True" /\ pc[p] = "final") =>
                 /\ calls[p][Len(calls[p])] = "GET_STATE"
                 /\ calls[p][Len(calls[p]) - 1] = "START"
            /\ report[p] = "started" <=> i.ret = "True"
C8_Witness ==
    \E p \in Procs :
        /\ startInfo[p].ret = "True"
        /\ startInfo[p].new_state = "running"
        /\ pc[p] = "done"

\* C9: every reconfigure PUT of every script carries a non-empty network list.
C9_NeverEmptyPut ==
    \A p \in Procs :
        \A k \in DOMAIN puts[p] : puts[p][k].networks # << >>
C9_Witness ==
    \E p \in Procs :
        /\ script[p] = "scheduled"
        /\ discovered[p] # << >>
        /\ Len(puts[p]) = 1
        /\ puts[p][1].networks = <<FallbackRef(desired_view[p])>>

\* C10: whenever the discovery-enabled list filtered by the target view is
\* not empty, the PUT carries exactly that filtered list, in every script.
C10_PutIsFilteredList ==
    \A p \in Procs :
        \A k \in DOMAIN puts[p] :
            filter_by_view(discovered[p], desired_view[p]) # << >> =>
                puts[p][k].networks = filter_by_view(discovered[p], desired_view[p])

\* The fallback lookup of a scheduled invocation returned a reference.
FallbackFound(p) ==
    /\ script[p] = "scheduled"
    /\ Count(calls[p], "GET_NETWORK") = 1
    /\ pc[p] # "fallback"
    /\ report[p] # "fallback_missing"

\* C11: in scheduled mode, when the filtered list is empty, a fallback is
\* configured and its lookup returns a reference, the update proceeds: once
\* the invocation is past the update, exactly one PUT was issued and its
\* network list is the one-element list holding the fallback reference.
C11_FallbackIsPut ==
    \A p \in Procs :
        ( /\ FallbackFound(p)
          /\ fallbackCfg
          /\ filter_by_view(discovered[p], desired_view[p]) = << >> ) =>
            /\ pc[p] \in {"update", "final", "done"}
            /\ (pc[p] = "update") = (Count(calls[p], "PUT") = 0)
            /\ Count(calls[p], "PUT") <= 1
            /\ Len(puts[p]) = Count(calls[p], "PUT")
            /\ \A k \in DOMAIN puts[p] :
                 puts[p][k].networks = <<FallbackRef(desired_view[p])>>
C11_Witness ==
    \E p \in Procs :
        /\ FallbackFound(p)
        /\ fallbackCfg
        /\ discovered[p] # << >>
        /\ filter_by_view(discovered[p], desired_view[p]) = << >>
        /\ pc[p] = "done"
        /\ report[p] = "updated"
        /\ taskNets["scheduled"] = <<FallbackRef(desired_view[p])>>

\* C12: in scheduled mode, when the filtered list is empty and no fallback is
\* configured, the invocation ends after the network listing: no fallback
\* lookup, no PUT, and the outcome reported is "skipped", not a failure.
C12_NoFallbackSkips ==
    \A p \in Procs :
        ( /\ script[p] = "scheduled"
          /\ ~fallbackCfg
          /\ Count(calls[p], "LIST_NETWORKS") = 1
          /\ filter_by_view(discovered[p], desired_view[p]) = << >> ) =>
            /\ calls[p] = <<"LIST_TASKS", "LIST_NETWORKS">>
            /\ puts[p] = << >>
            /\ pc[p] = "done"
            /\ report[p] = "skipped"
            /\ ~ConsoleMentionsLog(report[p])
C12_Witness ==
    \E p \in Procs :
        /\ script[p] = "scheduled"
        /\ ~fallbackCfg
        /\ failed[p] = {}
        /\ discovered[p] # << >>
        /\ filter_by_view(discovered[p], desired_view[p]) = << >>
        /\ pc[p] = "done"
        /\ report[p] = "skipped"

\* C13: in immediate mode, when the filtered list is empty, the invocation
\* ends after the network listing with the outcome "skipped": no PUT, no END,
\* no START and no fallback lookup, also when the task was active and the
\* operator confirmed.
C13_ImmediateEmptySkips ==
    \A p \in Procs :
        ( /\ script[p] = "current"
          /\ Count(calls[p], "LIST_NETWORKS") = 1
          /\ filter_by_view(discovered[p], desired_view[p]) = << >> ) =>
            /\ calls[p] = <<"LIST_TASKS", "GET_STATE", "LIST_NETWORKS">>
            /\ puts[p] = << >>
            /\ pc[p] = "done"
            /\ report[p] = "skipped"
            /\ ~startInfo[p].entered
C13_Witness ==
    \E p \in Procs :
        /\ script[p] = "current"
        /\ ReadActive(state[p])
        /\ answer[p] = "yes"
        /\ failed[p] = {}
        /\ discovered[p] # << >>
        /\ filter_by_view(discovered[p], desired_view[p]) = << >>
        /\ pc[p] = "done"
        /\ report[p] = "skipped"

\* C14: when the task listing returns no task with the script's role, or the
\* listing request fails, the invocation ends there: the listing is its only
\* remote call, and the outcome reported is "task not found".
C14_NotFoundAborts ==
    \A p \in Procs :
        (calls[p] # << >> /\ task_ref[p] = None) =>
            /\ calls[p] = <<"LIST_TASKS">>
            /\ puts[p] = << >>
            /\ pc[p] = "done"
            /\ report[p] = "notfound"
C14_Witness ==
    \E p \in Procs :
        /\ calls[p] = <<"LIST_TASKS">>
        /\ failed[p] = {}
        /\ task_ref[p] = None
        /\ pc[p] = "done"
        /\ report[p] = "notfound"

\* C15: a failed request aborts the operation: after a failed task listing,
\* network listing, fallback lookup, PUT, END or START, the same invocation
\* issues no PUT, END or START.
C15_NoMutationAfterFailure ==
    \A p \in Procs :
        \A i \in failed[p] : \A j \in DOMAIN calls[p] :
            j > i => calls[p][j] \notin MutatingCalls

\* The requests other than the state read.
SingleCalls == {"LIST_TASKS", "LIST_NETWORKS", "GET_NETWORK", "PUT", "END",
                "START"}

\* C16: no request is retried: an invocation issues each request other than
\* the state read at most once (in particular at most one END, one START and
\* one PUT), and a request that failed is not issued again.
C16_NoRetry ==
    \A p \in Procs :
        /\ \A c \in SingleCalls : Count(calls[p], c) <= 1
        /\ \A i \in failed[p] : Count(calls[p], calls[p][i]) = 1
        /\ Len(puts[p]) = Count(calls[p], "PUT")
C16_Witness ==
    \E p \in Procs :
        /\ pc[p] = "done"
        /\ \E i \in failed[p] : calls[p][i] = "START"
        /\ Count(calls[p], "END") = 1
        /\ Count(calls[p], "PUT") = 1
        /\ Count(calls[p], "GET_STATE") > 4

PayloadFields == {"mode", "network_view", "networks", "ping_retries",
                  "ping_timeout"}
\* Process p has just had a PUT answered with success.
PutSucceeds(p) ==
    /\ Len(calls'[p]) = Len(calls[p]) + 1
    /\ calls'[p][Len(calls'[p])] = "PUT"
    /\ failed'[p] = failed[p]

\* C17: the reconfigure is a full overwrite.  Every PUT body carries the mode,
\* the network view, the networks, the ping retries and the ping timeout
\* together; and a PUT that succeeds leaves the task's remote list equal to the
\* list it carried, whatever the list was before, and leaves the other task's
\* list alone.
C17_FullOverwrite ==
    /\ [](\A p \in Procs : \A k \in DOMAIN puts[p] :
            /\ DOMAIN puts[p][k] = PayloadFields
            /\ puts[p][k].network_view =
                 (IF script[p] = "legacy" THEN ViewGlobal ELSE desired_view[p]))
    /\ [][\A p \in Procs :
            PutSucceeds(p) =>
              /\ Len(puts'[p]) = Len(puts[p]) + 1
              /\ taskNets'[task_ref[p]] = puts'[p][Len(puts'[p])].networks
              /\ \A r \in Roles \ {task_ref[p]} : taskNets'[r] = taskNets[r]]_vars
C17_Witness ==
    \E p \in Procs :
        /\ script[p] = "current"
        /\ Count(calls[p], "PUT") = 1
        /\ Pos(calls[p], "PUT") \notin failed[p]
        /\ puts[p][1].networks = <<RefA, RefB>>
        /\ taskNets["current"] = <<RefA, RefB>>

\* A required key of the configuration is missing or empty.
RequiredKeyMissing == \E key \in ConfigKeys : CfgGet(config, key) = ""

\* C18: whenever a required key (API URL, username, password, target network
\* view) is missing or empty, the invocation of any of the three scripts ends
\* at startup with a failure and no remote call.
C18_InvalidConfigNoCalls ==
    \A p \in Procs :
        (RequiredKeyMissing /\ pc[p] # "idle") =>
            /\ calls[p] = << >>
            /\ (pc[p] = "done" =>
                  report[p] \in {"config_invalid", "config_rejected"})

\* ---------------------------------------- filter_by_view on its own inputs
\* References and views that tell a suffix "/view" from a suffix "view": a
\* reference in the view "xd", one shorter than the suffix, one equal to it.
RefXd == <<"D", "/", "x", "d">>
RefBare == <<"d">>
RefSlash == <<"/", "d">>
FilterRefs == {RefA, RefC, RefXd, RefBare, RefSlash}
FilterViews == {ViewDefault, ViewOther, <<"x", "d">>}
\* Every list of at most MaxNets references, repetitions included.
FilterInputs == UNION {[1..n -> FilterRefs] : n \in 0..MaxNets}

InitFilter ==
    /\ taskState = "STOPPED"
    /\ taskNets = [r \in Roles |-> <<RefC>>]
    /\ fallbackCfg = FALSE
    /\ config = [key \in ConfigKeys |-> "set"]
    /\ timeout = Timeout
    /\ interval = Interval
    /\ script = [p \in Procs |-> "current"]
    /\ force = [p \in Procs |-> FALSE]
    /\ desired_view \in [Procs -> FilterViews]
    /\ desired_view[2] = ViewDefault
    /\ discovered \in [Procs -> FilterInputs]
    /\ discovered[2] = << >>
    /\ task_ref = [p \in Procs |-> None]
    /\ state = [p \in Procs |-> None]
    /\ networks = [p \in Procs |-> << >>]
    /\ elapsed = [p \in Procs |-> 0]
    /\ report = [p \in Procs |-> "none"]
    /\ calls = [p \in Procs |-> << >>]
    /\ answer = [p \in Procs |-> "none"]
    /\ puts = [p \in Procs |-> << >>]
    /\ failed = [p \in Procs |-> {}]
    /\ startInfo = [p \in Procs |-> NoStart]
    /\ pc = [p \in Procs |-> IF p = 1 THEN "filter" ELSE "idle"]

\* filtered = filter_by_view(discovered, desired_view)
filter_apply(p) ==
    /\ pc[p] = "filter"
    /\ networks' = [networks EXCEPT ![p] =
                      filter_by_view(discovered[p], desired_view[p])]
    /\ Goto(p, "filtered")
    /\ UNCHANGED <<remoteVars, configVars, task_ref, state, discovered, elapsed,
                   report, calls, answer, puts, failed, startInfo>>

\* filter_by_view applied to its own result.
filter_again(p) ==
    /\ pc[p] = "filtered"
    /\ networks' = [networks EXCEPT ![p] =
                      filter_by_view(networks[p], desired_view[p])]
    /\ Goto(p, "refiltered")
    /\ UNCHANGED <<remoteVars, configVars, task_ref, state, discovered, elapsed,
                   report, calls, answer, puts, failed, startInfo>>

NextFilter ==
    \/ \E p \in Procs : filter_apply(p)
    \/ \E p \in Procs : filter_again(p)

SpecFilter == InitFilter /\ [][NextFilter]_vars

\* The identifier ref ends with "/" followed by view, character by character.
InView(ref, view) ==
    /\ Len(ref) > Len(view)
    /\ ref[Len(ref) - Len(view)] = "/"
    /\ \A i \in 1..Len(view) : ref[Len(ref) - Len(view) + i] = view[i]
\* The subsequence of refs in the view, in input order.
RECURSIVE InViewSubseq(_, _)
InViewSubseq(refs, view) ==
    IF refs = << >> THEN << >>
    ELSE (IF InView(Head(refs), view) THEN <<Head(refs)>> ELSE << >>)
         \o InViewSubseq(Tail(refs), view)

\* C19: for every list of references and every view, filter_by_view returns
\* exactly the subsequence of the references whose identifier ends with "/"
\* followed by the view, in input order, and filtering the result again with
\* the same view returns the same list.
C19_FilterExactAndIdempotent ==
    /\ [](\A p \in Procs :
            pc[p] \in {"filtered", "refiltered"} =>
                networks[p] = InViewSubseq(discovered[p], desired_view[p]))
    /\ [][\A p \in Procs :
            (pc[p] = "filtered" /\ pc'[p] = "refiltered") =>
                networks'[p] = networks[p]]_vars
C19_Witness ==
    \E p \in Procs :
        /\ pc[p] = "refiltered"
        /\ desired_view[p] = ViewDefault
        /\ discovered[p] = <<RefXd, RefA, RefBare>>
        /\ networks[p] = <<RefA>>

\* The invocation ended on a failure: it reported one, or one of its requests
\* failed.
EndedOnFailure(p) ==
    /\ pc[p] = "done"
    /\ \/ report[p] \in {"notfound", "fallback_missing", "update_failed",
                         "start_failed"}
       \/ failed[p] # {}

\* C20: every invocation that ends on a failure (task not found, a failed
\* request, the stop wait timed out, START did not reach RUNNING) has printed
\* a console message that refers the operator to discovery.log, in all three
\* scripts.
C20_FailurePointsToLog ==
    \A p \in Procs :
        EndedOnFailure(p) => ConsoleMentionsLog(report[p])

\* The requests the scripts can issue; none creates or deletes a task.
ReadCalls == {"LIST_TASKS", "GET_STATE", "LIST_NETWORKS", "GET_NETWORK"}

\* C21: an invocation of a scheduled-mode script (scheduled-discovery.py or
\* scheduler.py) only reads, and overwrites the task with the role
\* "scheduled": its only mutating request is at most one PUT, on that task's
\* reference; it issues no END and no START, and none of its requests changes
\* the list or the state of the task with the role "current".
C21_ScheduledOnlyPutsScheduled ==
    /\ [](\A p \in Procs :
            script[p] # "current" =>
                /\ Range(calls[p]) \subseteq ReadCalls \cup {"PUT"}
                /\ Count(calls[p], "PUT") <= 1
                /\ task_ref[p] \in {None, "scheduled"})
    /\ [][\A p \in Procs :
            (script[p] # "current" /\ calls'[p] # calls[p]) =>
                /\ taskNets'["current"] = taskNets["current"]
                /\ taskState' = taskState
                /\ (taskNets'["scheduled"] # taskNets["scheduled"] =>
                      /\ calls'[p] = Append(calls[p], "PUT")
                      /\ task_ref[p] = "scheduled")]_vars
C21_Witness ==
    \E p \in Procs :
        /\ script[p] = "legacy"
        /\ pc[p] = "done"
        /\ Count(calls[p], "PUT") = 1
        /\ failed[p] = {}
        /\ taskNets["scheduled"] = <<RefA, RefB>>
        /\ taskNets["current"] = <<RefC>>

\* start read an active state and the END request failed.
StopFailed(p) ==
    /\ startInfo[p].entered
    /\ ReadActive(startInfo[p].first)
    /\ \E i \in failed[p] : calls[p][i] = "END"

\* C23: when start read an active state and the END request fails, start
\* returns failure at once: no poll of the state and no START follow, the only
\* request after the END being main's final state read.
C23_StopFailureFailsFast ==
    \A p \in Procs :
        StopFailed(p) =>
            /\ startInfo[p].endRet = "False"
            /\ startInfo[p].polls = 0
            /\ startInfo[p].ret = "False"
            /\ Count(calls[p], "START") = 0
            /\ report[p] = "start_failed"
            /\ pc[p] \in {"final", "done"}
            /\ Len(calls[p]) - Pos(calls[p], "END") = (IF pc[p] = "done" THEN 1 ELSE 0)
C23_Witness ==
    \E p \in Procs :
        /\ StopFailed(p)
        /\ startInfo[p].first = "PAUSED"
        /\ pc[p] = "done"
        /\ taskState = "PAUSED"

\* C24: without the force flag, an invocation sends END only after the
\* operator was prompted and answered yes.
C24_EndOnlyAfterConfirmation ==
    \A p \in Procs :
        (~force[p] /\ Count(calls[p], "END") > 0) => answer[p] = "yes"

\* The PUT of an immediate-mode invocation failed.
UpdateFailed(p) ==
    /\ script[p] = "current"
    /\ \E i \in failed[p] : calls[p][i] = "PUT"

FirstReadUnknown(p) ==
    /\ script[p] = "current"
    /\ Len(calls[p]) >= 2
    /\ state[p] = None

\* C26: the state read returns Unknown (None) for an absent task or a failed
\* request, and immediate mode proceeds on it as for an inactive task: no
\* confirmation is requested, the next request is the network listing, and a
\* non-empty selection is then PUT.
C26_UnknownProceeds ==
    \A p \in Procs :
        FirstReadUnknown(p) =>
            /\ answer[p] = "none"
            /\ report[p] # "aborted"
            /\ (Len(calls[p]) = 2 => pc[p] = "listnets")
            /\ (Len(calls[p]) >= 3 => calls[p][3] = "LIST_NETWORKS")
            /\ (Len(calls[p]) = 3 =>
                  pc[p] = (IF filter_by_view(discovered[p], desired_view[p]) = << >>
                           THEN "done" ELSE "update"))
            /\ (Len(calls[p]) >= 4 =>
                  /\ calls[p][4] = "PUT"
                  /\ puts[p][1].networks =
                       filter_by_view(discovered[p], desired_view[p]))
C26_Witness ==
    \E p \in Procs :
        /\ FirstReadUnknown(p)
        /\ ~force[p]
        /\ Count(calls[p], "PUT") = 1
        /\ report[p] = "started"
        /\ pc[p] = "done"

\* C27: in the stop-poll an Unknown state read is not a convergence.  The poll
\* returns true only on a read of a known state outside RUNNING, PAUSED,
\* END_PENDING, so only while the task really is in such a state; when no poll
\* made such a read the poll does not return true, and after its return of
\* false no START is issued.
C27_UnknownIsNotStopped ==
    /\ [](\A p \in Procs :
            LET i == startInfo[p]
            IN  /\ i.waitRet = "True" => i.stopped >= 1
                /\ (i.endRet = "True" /\ i.stopped = 0) =>
                     /\ i.waitRet \in {None, "False"}
                     /\ Count(calls[p], "START") = 0
                     /\ i.sentAt = None)
    /\ [][\A p \in Procs :
            (pc[p] = "wait" /\ startInfo'[p].waitRet = "True") =>
                /\ taskState \notin ActiveStates
                /\ startInfo'[p].stopped = startInfo[p].stopped + 1
                /\ calls'[p] = Append(calls[p], "GET_STATE")]_vars
\* The task was COMPLETE during the whole wait, and every poll up to the
\* deadline read Unknown.
C27_Witness ==
    \E p \in Procs :
        /\ startInfo[p].endRet = "True"
        /\ startInfo[p].waitRet = "False"
        /\ startInfo[p].polls > 1
        /\ taskState = "COMPLETE"
        /\ pc[p] = "done"

\* The fallback lookup of a scheduled invocation failed or found no object.
FallbackMissing(p) ==
    /\ script[p] = "scheduled"
    /\ Count(calls[p], "GET_NETWORK") = 1
    /\ \/ report[p] = "fallback_missing"
       \/ \E i \in failed[p] : calls[p][i] = "GET_NETWORK"

\* C29: in scheduled mode, when the filtered list is empty and the lookup of
\* the configured fallback fails or returns no object, the invocation ends
\* there: the lookup is its last request, no PUT is issued, and the step leaves
\* the remote lists as they were.
C29_FallbackMissingNoPut ==
    /\ [](\A p \in Procs :
            FallbackMissing(p) =>
                /\ fallbackCfg
                /\ filter_by_view(discovered[p], desired_view[p]) = << >>
                /\ calls[p] = <<"LIST_TASKS", "LIST_NETWORKS", "GET_NETWORK">>
                /\ puts[p] = << >>
                /\ pc[p] = "done"
                /\ report[p] = "fallback_missing")
    /\ [][\A p \in Procs :
            (pc[p] = "fallback" /\ pc'[p] # pc[p]) => taskNets' = taskNets]_vars
C29_Witness ==
    \E p \in Procs :
        /\ FallbackMissing(p)
        /\ failed[p] = {}
        /\ discovered[p] # << >>
        /\ pc[p] = "done"
        /\ taskNets["scheduled"] = <<RefA, RefB, RefC>>

Immediate(p) ==
    \/ main_status(p)
    \/ main_networks(p)
    \/ main_update(p)
    \/ start_read(p)
    \/ start_stop(p)
    \/ wait_poll(p)
    \/ wait_timeout(p)
    \/ start_post(p)
    \/ start_verify(p)
    \/ main_final(p)

Scheduled(p) ==
    \/ sched_networks(p)
    \/ sched_fallback(p)
    \/ sched_update(p)
    \/ sched_final(p)

Legacy(p) ==
    \/ legacy_networks(p)
    \/ legacy_update(p)

\* ------------------------------------------ immediate mode and the stop-poll
\* wait_for_discovery_to_stop(task_ref, timeout, interval) on other arguments
\* than its defaults: a deadline that has passed at the call, short ones, and
\* two positive intervals.
WaitTimeouts == {0 - Interval, 0, Interval - 2, 2 * Interval, Timeout}
WaitIntervals == {Interval - 3, Interval}

\* The state in which start_current_discovery_task, having read RUNNING and
\* ended the task, calls wait_for_discovery_to_stop.
InitWait ==
    /\ taskState \in {"END_PENDING", "STOPPED"}
    /\ taskNets = [r \in Roles |-> IF r = "current" THEN <<RefA>> ELSE <<RefC>>]
    /\ fallbackCfg = FALSE
    /\ config = [key \in ConfigKeys |-> "set"]
    /\ timeout \in WaitTimeouts
    /\ interval \in WaitIntervals
    /\ script = [p \in Procs |-> "current"]
    /\ force = [p \in Procs |-> FALSE]
    /\ desired_view = [p \in Procs |-> ViewDefault]
    /\ task_ref = [p \in Procs |-> IF p = 1 THEN "current" ELSE None]
    /\ state = [p \in Procs |-> None]
    /\ discovered = [p \in Procs |-> IF p = 1 THEN <<RefA>> ELSE << >>]
    /\ networks = [p \in Procs |-> IF p = 1 THEN <<RefA>> ELSE << >>]
    /\ elapsed = [p \in Procs |-> 0]
    /\ report = [p \in Procs |-> "none"]
    /\ calls = [p \in Procs |->
                  IF p = 1 THEN <<"LIST_TASKS", "GET_STATE", "LIST_NETWORKS",
                                  "PUT", "GET_STATE", "END">>
                  ELSE << >>]
    /\ answer = [p \in Procs |-> "none"]
    /\ puts = [p \in Procs |->
                  IF p = 1 THEN <<Payload(ViewDefault, <<RefA>>)>> ELSE << >>]
    /\ failed = [p \in Procs |-> {}]
    /\ startInfo = [p \in Procs |->
                      IF p = 1 THEN [NoStart EXCEPT !.entered = TRUE,
                                                    !.first = "RUNNING",
                                                    !.endRet = "True"]
                      ELSE NoStart]
    /\ pc = [p \in Procs |-> IF p = 1 THEN "wait" ELSE "idle"]

\* One invocation of current-discovery.py with a valid configuration, or one
\* call of the stop-poll.
InitImmediate ==
    \/ /\ Init
       /\ script[1] = "current"
       /\ validate_config(config)
       /\ desired_view[1] = ViewDefault
       /\ taskNets["current"] = <<RefA, RefB, RefC>>
    \/ InitWait

NextImmediate ==
    \/ \E p \in Procs : startup(p)
    \/ \E p \in Procs : locate(p)
    \/ \E p \in Procs : Immediate(p)
    \/ RemoteProgress

SpecImmediate == InitImmediate /\ [][NextImmediate]_vars

\* ceil(a / b) for b > 0, and the most polls a call of the stop-poll can make.
CeilDiv(a, b) == (a + b - 1) \div b
MostPolls == IF timeout > 0 THEN CeilDiv(timeout, interval) ELSE 0
\* An invocation issues at most nine requests besides the polls: the task
\* listing, main's state read, the network listing, the PUT, start's state
\* read, END, START, the state read after START and main's final state read.
OtherCalls == {"LIST_TASKS", "LIST_NETWORKS", "PUT", "END", "START"}
MostCalls == Cardinality(OtherCalls) + 4 + MostPolls
\* A step of invocation p.
Step(p) == startup(p) \/ locate(p) \/ Immediate(p)

\* C28: the stop-poll is bounded and every immediate-mode invocation ends.  The
\* stop-poll makes at most ceil(timeout / interval) state reads, none when
\* timeout <= 0, and starts no poll once the deadline has passed; an invocation
\* that has not ended can always take a step, each of its steps issues a
\* request or leaves the startup check or the stop-poll for good, and it issues
\* a bounded number of requests, whatever the remote answers.
C28_BoundedPollAndTermination ==
    /\ [](\A p \in Procs :
            /\ startInfo[p].polls <= MostPolls
            /\ Len(calls[p]) <= MostCalls
            /\ (pc[p] \notin {"done", "idle"} => ENABLED Step(p)))
    /\ [][\A p \in Procs :
            /\ (pc[p] = "wait" /\ elapsed[p] >= timeout) => calls'[p] = calls[p]
            /\ (pc'[p] # pc[p] \/ calls'[p] # calls[p] \/ elapsed'[p] # elapsed[p]) =>
                  \/ Len(calls'[p]) = Len(calls[p]) + 1
                  \/ /\ calls'[p] = calls[p]
                     /\ pc[p] \in {"startup", "wait"}
                     /\ pc'[p] \in {"locate", "final", "done"}]_vars
\* A task that stays END_PENDING: the twelve polls of the defaults, the
\* timeout, and the end of the invocation.
C28_Witness ==
    \E p \in Procs :
        /\ timeout = Timeout
        /\ interval = Interval
        /\ taskState = "END_PENDING"
        /\ startInfo[p].polls = MostPolls
        /\ startInfo[p].waitRet = "False"
        /\ pc[p] = "done"

\* ------------------------------------------- two concurrent invocations
\* Two invocations of current-discovery.py --force against the same task, one
\* for each view, interleaved at the granularity of the requests.
InitConcurrent ==
    /\ InitCommon
    /\ taskState = "RUNNING"
    /\ taskNets = [r \in Roles |-> <<RefA, RefB, RefC>>]
    /\ fallbackCfg = FALSE
    /\ validate_config(config)
    /\ script = [p \in Procs |-> "current"]
    /\ force = [p \in Procs |-> TRUE]
    /\ desired_view = [p \in Procs |-> IF p = 1 THEN ViewDefault ELSE ViewOther]
    /\ pc = [p \in Procs |-> "startup"]

\* The platform during the concurrent runs: it lists one inventory, answers
\* every state read with the task's state as it spells it, fails no request
\* but the PUT, and the sleeps take exactly the interval.
ConcurrentInventory == <<RefA, RefC>>
ConcurrentEnv ==
    \A p \in Procs :
        /\ discovered[p] \in {<< >>, ConcurrentInventory}
        /\ elapsed[p] % interval = 0
        /\ state[p] \in RemoteStates \cup {None}
        /\ (pc[p] \notin {"startup", "locate", "status"} => state[p] # None)
        /\ startInfo[p].first \in RemoteStates \cup {None}
        /\ (startInfo[p].entered => startInfo[p].first # None)
        /\ startInfo[p].new_state \in RemoteStates \cup {None}
        /\ \A i \in failed[p] : calls[p][i] = "PUT"

NextConcurrent ==
    \/ \E p \in Procs : startup(p) /\ ConcurrentEnv'
    \/ \E p \in Procs : locate(p) /\ ConcurrentEnv'
    \/ \E p \in Procs : main_status(p) /\ ConcurrentEnv'
    \/ \E p \in Procs : main_networks(p) /\ ConcurrentEnv'
    \/ \E p \in Procs : main_update(p) /\ ConcurrentEnv'
    \/ \E p \in Procs : start_read(p) /\ ConcurrentEnv'
    \/ \E p \in Procs : start_stop(p) /\ ConcurrentEnv'
    \/ \E p \in Procs : wait_poll(p) /\ ConcurrentEnv'
    \/ \E p \in Procs : wait_timeout(p) /\ ConcurrentEnv'
    \/ \E p \in Procs : start_post(p) /\ ConcurrentEnv'
    \/ \E p \in Procs : start_verify(p) /\ ConcurrentEnv'
    \/ \E p \in Procs : main_final(p) /\ ConcurrentEnv'
    \/ RemoteProgress

SpecConcurrent == InitConcurrent /\ [][NextConcurrent]_vars

\* The PUT of invocation q succeeded.
PutDone(q) ==
    /\ Count(calls[q], "PUT") = 1
    /\ Pos(calls[q], "PUT") \notin failed[q]
\* The END of invocation q succeeded.
EndDone(q) ==
    /\ Count(calls[q], "END") = 1
    /\ Pos(calls[q], "END") \notin failed[q]
\* Invocation p reported a successful start, but the task's list is not the
\* one it sent.
StartedOnForeignList(p) ==
    /\ report[p] = "started"
    /\ taskNets["current"] # puts[p][1].networks
\* Invocation p reported a successful start, but the run was ended.
StartedButEnded(p) ==
    /\ report[p] = "started"
    /\ taskState \in {"END_PENDING", "STOPPED"}

\* C22: nothing protects an invocation from a concurrent writer.  With two
\* invocations, one can report a successful start although the task's list is
\* the other's (the witness); such a state, and one in which the reported run
\* was ended, arises only through the other invocation's successful PUT or
\* END, so a single invocation never reaches it.
C22_RaceOnlyWithSecondWriter ==
    \A p \in Procs :
        /\ StartedOnForeignList(p) =>
             \E q \in Procs \ {p} :
                 PutDone(q) /\ taskNets["current"] = puts[q][1].networks
        /\ StartedButEnded(p) => \E q \in Procs \ {p} : EndDone(q)
C22_Witness ==
    /\ StartedOnForeignList(1)
    /\ pc[1] = "done"
    /\ PutDone(1)
    /\ PutDone(2)
    /\ puts[1][1].networks = <<RefA>>
    /\ taskNets["current"] = <<RefC>>

Next ==
    \/ \E p \in Procs : startup(p)
    \/ \E p \in Procs : locate(p)
    \/ \E p \in Procs : Immediate(p)
    \/ \E p \in Procs : Scheduled(p)
    \/ \E p \in Procs : Legacy(p)
    \/ RemoteProgress

Spec == Init /\ [][Next]_vars
====
